---- MODULE Spec2Model ----
(***************************************************************************)
(* Model of the warikan (bill splitting) calculator:                       *)
(*   - the engine of src/src/utils/settlement.ts lines 1-125               *)
(*     (roundToUnit, calculateBalances, roundBalancesToUnit,               *)
(*     buildSettlementPlan reading roundedDiff),                           *)
(*   - the earlier engine of src/unnamed/part_000 (buildSettlementPlan     *)
(*     reading diff),                                                      *)
(*   - the App component of src/src/utils/settlement.ts lines 127-685      *)
(*     (participants / expenses state and its four handlers).              *)
(* Amounts are integers (yen).  A participant is represented by its id;    *)
(* names and titles play no part in any computation.                       *)
(***************************************************************************)
EXTENDS Integers, Sequences, FiniteSets, TLC

VARIABLES
    participants,   \* App state / calculateBalances argument: sequence of participant ids
    expenses,       \* App state / calculateBalances argument: sequence of Expense records
    shareFields,    \* App: participantIds of the expense form's share rows (useFieldArray)
    payerId,        \* App: the expense form's payerId value (NoPayer for '')
    idCounter,      \* App: number of ids handed out by createId so far
    balances,       \* the balance list (calculateBalances / roundBalancesToUnit result)
    unit,           \* roundBalancesToUnit's unit argument
    pc,             \* position of the engine call being run
    planner,        \* which buildSettlementPlan is running: "roundedDiff", "diff" or "none"
    debtors,        \* buildSettlementPlan local
    creditors,      \* buildSettlementPlan local
    debtorIndex,    \* buildSettlementPlan local (0-based, as in the source)
    creditorIndex,  \* buildSettlementPlan local (0-based, as in the source)
    settlements     \* buildSettlementPlan local / result; App: the settlements memo

vars == <<participants, expenses, shareFields, payerId, idCounter, balances, unit, pc,
          planner, debtors, creditors, debtorIndex, creditorIndex, settlements>>

appVars == <<participants, expenses, shareFields, payerId, idCounter>>
loopVars == <<debtors, creditors, debtorIndex, creditorIndex, settlements>>

(***************************************************************************)
(* Bounds of the model.                                                    *)
(***************************************************************************)
MaxBalances == 3      \* longest balance list given to the rounding / planning calls
MaxDiff == 3          \* small diffs range over -MaxDiff..MaxDiff
MaxUnit == 2          \* small rounding units range over 1..MaxUnit
MaxExpenses == 2      \* longest expense list (engine inputs and App state)
MaxAmount == 2        \* App: largest amount typed into the expense form
MaxCalcAmount == 1    \* largest expense / share amount given to calculateBalances
MaxIds == 4           \* App: ids createId may hand out

ROUNDING_UNIT == 100
NoPayer == 0

(***************************************************************************)
(* Helpers on sequences and numbers.                                       *)
(***************************************************************************)
\* mutant of Min: the transfer is one yen at a time
MinOneYen(a, b) == 1

Min(a, b) == IF a < b THEN a ELSE b
Abs(a) == IF a < 0 THEN -a ELSE a

\* mutant of MathRound: a half rounds away from zero
MathRoundHalfAway(num, den) ==
    IF num >= 0 THEN (2 * num + den) \div (2 * den)
    ELSE -((2 * (-num) + den) \div (2 * den))

\* JavaScript Math.round of the rational num/den (den > 0): floor(x + 1/2),
\* so a half rounds towards +Infinity (Math.round(-1.5) = -1).
MathRound(num, den) == (2 * num + den) \div (2 * den)

\* Array.prototype.reduce((sum, x) => sum + x.<field>, 0)
RECURSIVE SumField(_, _)
SumField(s, field) ==
    IF s = <<>> THEN 0 ELSE s[1][field] + SumField(Tail(s), field)

SeqsUpTo(S, n) == UNION {[1..k -> S] : k \in 0..n}

IsInjective(s) == \A i, j \in DOMAIN s : s[i] = s[j] => i = j

Range(s) == {s[i] : i \in DOMAIN s}

(***************************************************************************)
(* calculateBalances (settlement.ts 21-56, identical in part_000 34-69).   *)
(* The ledger is a Map: keys in insertion order plus the two accumulators. *)
(***************************************************************************)
\* ledger.set(participant.id, {participant, paid: 0, shouldPay: 0}): a Map keeps
\* the position of a key that is set again.
LedgerSet(ledger, id) ==
    [keys |-> IF id \in Range(ledger.keys) THEN ledger.keys ELSE Append(ledger.keys, id),
     paid |-> [k \in DOMAIN ledger.paid \cup {id} |->
                 IF k = id THEN 0 ELSE ledger.paid[k]],
     shouldPay |-> [k \in DOMAIN ledger.shouldPay \cup {id} |->
                 IF k = id THEN 0 ELSE ledger.shouldPay[k]]]

EmptyLedger == [keys |-> <<>>, paid |-> <<>>, shouldPay |-> <<>>]

\* participants.forEach(...)
RECURSIVE LedgerInit(_, _)
LedgerInit(ledger, ps) ==
    IF ps = <<>> THEN ledger ELSE LedgerInit(LedgerSet(ledger, ps[1]), Tail(ps))

\* mutant of AddShare: `=` instead of `+=`
AddShareAssign(ledger, share) ==
    IF share.participantId \notin Range(ledger.keys) THEN ledger
    ELSE [ledger EXCEPT !.shouldPay[share.participantId] = share.amount]

\* one iteration of expense.shares.forEach(...)
AddShare(ledger, share) ==
    IF share.participantId \notin Range(ledger.keys) THEN ledger
    ELSE [ledger EXCEPT !.shouldPay[share.participantId] = @ + share.amount]

RECURSIVE AddShares(_, _)
AddShares(ledger, shares) ==
    IF shares = <<>> THEN ledger ELSE AddShares(AddShare(ledger, shares[1]), Tail(shares))

\* mutant of SkipExpense: the guard is missing
SkipNever(expense) == FALSE

\* the guard `if (expense.amount <= 0) return;`
SkipExpense(expense) == expense.amount <= 0

\* `if (payer) payer.paid += expense.amount`
AddPaid(ledger, expense) ==
    IF expense.payerId \in Range(ledger.keys)
    THEN [ledger EXCEPT !.paid[expense.payerId] = @ + expense.amount]
    ELSE ledger

\* one iteration of expenses.forEach(...)
AddExpense(ledger, expense) ==
    IF SkipExpense(expense) THEN ledger
    ELSE AddShares(AddPaid(ledger, expense), expense.shares)

RECURSIVE AddExpenses(_, _)
AddExpenses(ledger, es) ==
    IF es = <<>> THEN ledger ELSE AddExpenses(AddExpense(ledger, es[1]), Tail(es))

\* Array.from(ledger.values()).map(...)
LedgerEntry(ledger, id) ==
    LET paid == MathRound(ledger.paid[id], 1)
        shouldPay == MathRound(ledger.shouldPay[id], 1)
    IN  [participant |-> id, paid |-> paid, shouldPay |-> shouldPay,
         diff |-> paid - shouldPay]

calculateBalances(ps, es) ==
    LET ledger == AddExpenses(LedgerInit(EmptyLedger, ps), es)
    IN  [i \in 1..Len(ledger.keys) |-> LedgerEntry(ledger, ledger.keys[i])]

(***************************************************************************)
(* roundToUnit and roundBalancesToUnit (settlement.ts 16-19, 58-84).       *)
(* Every value of the model is a finite integer, so the Number.isFinite    *)
(* guard of roundToUnit never takes its `return 0` branch.                 *)
(***************************************************************************)
\* mutant of roundToUnit: the `* unit` is missing
roundToUnitUnscaled(value, u) == MathRound(value, u)

roundToUnit(value, u) == MathRound(value, u) * u

\* rounded = balances.map(b => ({...b, roundedDiff: roundToUnit(b.diff, unit)}))
WithRoundedDiff(b, r) ==
    [participant |-> b.participant, paid |-> b.paid, shouldPay |-> b.shouldPay,
     diff |-> b.diff, roundedDiff |-> r]

RoundEach(bs, u) == [i \in 1..Len(bs) |-> WithRoundedDiff(bs[i], roundToUnit(bs[i].diff, u))]

\* rounded.reduce((max, b) => b.roundedDiff > max.roundedDiff ? b : max), as the
\* index of the element it returns; best is the index held so far, i the next one.
\* mutant of ReduceMax: `>=` instead of `>`, so the last maximum is returned
RECURSIVE ReduceMaxLast(_, _, _)
ReduceMaxLast(rounded, best, i) ==
    IF i > Len(rounded) THEN best
    ELSE ReduceMaxLast(rounded,
                       IF rounded[i].roundedDiff >= rounded[best].roundedDiff THEN i ELSE best,
                       i + 1)

RECURSIVE ReduceMax(_, _, _)
ReduceMax(rounded, best, i) ==
    IF i > Len(rounded) THEN best
    ELSE ReduceMax(rounded,
                   IF rounded[i].roundedDiff > rounded[best].roundedDiff THEN i ELSE best,
                   i + 1)

RECURSIVE ReduceMin(_, _, _)
ReduceMin(rounded, best, i) ==
    IF i > Len(rounded) THEN best
    ELSE ReduceMin(rounded,
                   IF rounded[i].roundedDiff < rounded[best].roundedDiff THEN i ELSE best,
                   i + 1)

\* mutant of CorrectDrift: `+=` instead of `-=`
CorrectDriftAdd(rounded, target, totalRounded) ==
    [rounded EXCEPT ![target].roundedDiff = @ + totalRounded]

\* target.roundedDiff -= totalRounded
CorrectDrift(rounded, target, totalRounded) ==
    [rounded EXCEPT ![target].roundedDiff = @ - totalRounded]

roundBalancesToUnit(bs, u) ==
    LET rounded == RoundEach(bs, u)
        totalRounded == SumField(rounded, "roundedDiff")
    IN  IF totalRounded # 0 /\ Len(rounded) > 0
        THEN IF totalRounded > 0
             THEN CorrectDrift(rounded, ReduceMax(rounded, 1, 2), totalRounded)
             ELSE CorrectDrift(rounded, ReduceMin(rounded, 1, 2), totalRounded)
        ELSE rounded

(***************************************************************************)
(* buildSettlementPlan (settlement.ts 86-123 reads roundedDiff; part_000   *)
(* 71-108 is the same function reading diff).  A record without the field  *)
(* read yields undefined, and `undefined > 0`, `undefined < 0` are false.   *)
(***************************************************************************)
HasField(b, field) == field \in DOMAIN b

\* mutant of PushBalance: debtors.unshift instead of debtors.push
PushBalanceUnshift(lists, b, field) ==
    IF HasField(b, field) /\ b[field] > 0
    THEN [lists EXCEPT !.creditors =
              Append(@, [id |-> b.participant, amount |-> b[field]])]
    ELSE IF HasField(b, field) /\ b[field] < 0
    THEN [lists EXCEPT !.debtors =
              <<[id |-> b.participant, amount |-> Abs(b[field])]>> \o @]
    ELSE lists

\* the body of balances.forEach(...), reading `field` of the balance
PushBalance(lists, b, field) ==
    IF HasField(b, field) /\ b[field] > 0
    THEN [lists EXCEPT !.creditors =
              Append(@, [id |-> b.participant, amount |-> b[field]])]
    ELSE IF HasField(b, field) /\ b[field] < 0
    THEN [lists EXCEPT !.debtors =
              Append(@, [id |-> b.participant, amount |-> Abs(b[field])])]
    ELSE lists

RECURSIVE Partition(_, _, _)
Partition(lists, bs, field) ==
    IF bs = <<>> THEN lists
    ELSE Partition(PushBalance(lists, bs[1], field), Tail(bs), field)

EmptyLists == [debtors |-> <<>>, creditors |-> <<>>]

\* settlement.ts 87-100: the locals when the while loop is reached
PlanStart(bs) ==
    LET lists == Partition(EmptyLists, bs, "roundedDiff")
    IN  [debtors |-> lists.debtors, creditors |-> lists.creditors,
         debtorIndex |-> 0, creditorIndex |-> 0, settlements |-> <<>>]

\* part_000 72-85: the same, reading diff
PlanStartDiff(bs) ==
    LET lists == Partition(EmptyLists, bs, "diff")
    IN  [debtors |-> lists.debtors, creditors |-> lists.creditors,
         debtorIndex |-> 0, creditorIndex |-> 0, settlements |-> <<>>]

\* while (debtorIndex < debtors.length && creditorIndex < creditors.length)
LoopCond(st) ==
    st.debtorIndex < Len(st.debtors) /\ st.creditorIndex < Len(st.creditors)

\* mutant of Emit: from and to exchanged
EmitSwapped(sett, debtor, creditor, amount) ==
    IF amount > 0
    THEN Append(sett, [from |-> creditor.id, to |-> debtor.id, amount |-> amount])
    ELSE sett

\* mutant of Emit: `to` is given the debtor's id
EmitToDebtor(sett, debtor, creditor, amount) ==
    IF amount > 0
    THEN Append(sett, [from |-> debtor.id, to |-> debtor.id, amount |-> amount])
    ELSE sett

\* if (amount > 0) settlements.push({from, to, amount})
Emit(sett, debtor, creditor, amount) ==
    IF amount > 0
    THEN Append(sett, [from |-> debtor.id, to |-> creditor.id, amount |-> amount])
    ELSE sett

\* mutant of Advance: the cursor moves on whatever remains
AdvanceAlways(index, remaining) == index + 1

\* mutant of Advance: the cursor never moves
AdvanceNever(index, remaining) == index

\* if (x.amount === 0) index += 1
Advance(index, remaining) == IF remaining = 0 THEN index + 1 ELSE index

\* one iteration of the while loop
LoopBody(st) ==
    LET debtor == st.debtors[st.debtorIndex + 1]
        creditor == st.creditors[st.creditorIndex + 1]
        amount == Min(debtor.amount, creditor.amount)
    IN  [debtors |-> [st.debtors EXCEPT ![st.debtorIndex + 1].amount = @ - amount],
         creditors |-> [st.creditors EXCEPT ![st.creditorIndex + 1].amount = @ - amount],
         debtorIndex |-> Advance(st.debtorIndex, debtor.amount - amount),
         creditorIndex |-> Advance(st.creditorIndex, creditor.amount - amount),
         settlements |-> Emit(st.settlements, debtor, creditor, amount)]

RECURSIVE RunLoop(_)
RunLoop(st) == IF LoopCond(st) THEN RunLoop(LoopBody(st)) ELSE st

buildSettlementPlan(bs) == RunLoop(PlanStart(bs)).settlements

buildSettlementPlanDiff(bs) == RunLoop(PlanStartDiff(bs)).settlements

(***************************************************************************)
(* Values of the variables a specification does not use.                   *)
(***************************************************************************)
IdleApp ==
    /\ participants = <<>>
    /\ expenses = <<>>
    /\ shareFields = <<>>
    /\ payerId = NoPayer
    /\ idCounter = 0

IdleLoop ==
    /\ planner = "none"
    /\ debtors = <<>>
    /\ creditors = <<>>
    /\ debtorIndex = 0
    /\ creditorIndex = 0
    /\ settlements = <<>>

(***************************************************************************)
(* SpecPlan: one call of the rounding normalizer and / or the settlement   *)
(* planner on a balance list drawn from a bounded set of integer diffs.    *)
(* The planner's while loop runs one iteration per step.                   *)
(***************************************************************************)
\* the diff lists of the scenarios of the specification (section 8)
ScenarioDiffs == {<<150, -150>>, <<50, -30, -20>>, <<2000, -1000, -1000>>}

DiffLists == SeqsUpTo(-MaxDiff..MaxDiff, MaxBalances) \cup ScenarioDiffs

Units == (1..MaxUnit) \cup {ROUNDING_UNIT}

\* a CalculatedBalance list with the given diffs; the participant ids are 1, 2, ...
RawBalances(diffs) ==
    [i \in 1..Len(diffs) |->
        [participant |-> i,
         paid |-> IF diffs[i] > 0 THEN diffs[i] ELSE 0,
         shouldPay |-> IF diffs[i] < 0 THEN -diffs[i] ELSE 0,
         diff |-> diffs[i]]]

InitPlan ==
    /\ IdleApp
    /\ IdleLoop
    /\ pc = "balances"
    /\ unit \in Units
    /\ balances \in {RawBalances(d) : d \in DiffLists}

\* roundBalancesToUnit(balances, unit)
RoundBalances ==
    /\ pc = "balances"
    /\ balances' = roundBalancesToUnit(balances, unit)
    /\ pc' = "rounded"
    /\ UNCHANGED <<appVars, unit, planner, loopVars>>

EnterLoop(st) ==
    /\ debtors' = st.debtors
    /\ creditors' = st.creditors
    /\ debtorIndex' = st.debtorIndex
    /\ creditorIndex' = st.creditorIndex
    /\ settlements' = st.settlements
    /\ pc' = "loop"

\* buildSettlementPlan of settlement.ts up to its while loop; it is given the
\* rounded list, or the raw list as the App gives it
StartPlan ==
    /\ pc \in {"balances", "rounded"}
    /\ planner' = "roundedDiff"
    /\ EnterLoop(PlanStart(balances))
    /\ UNCHANGED <<appVars, unit, balances>>

\* buildSettlementPlan of part_000 up to its while loop, given the raw list
StartPlanDiff ==
    /\ pc = "balances"
    /\ planner' = "diff"
    /\ EnterLoop(PlanStartDiff(balances))
    /\ UNCHANGED <<appVars, unit, balances>>

LoopState ==
    [debtors |-> debtors, creditors |-> creditors, debtorIndex |-> debtorIndex,
     creditorIndex |-> creditorIndex, settlements |-> settlements]

\* one iteration of the while loop
LoopStep ==
    /\ pc = "loop"
    /\ LoopCond(LoopState)
    /\ EnterLoop(LoopBody(LoopState))
    /\ UNCHANGED <<appVars, unit, balances, planner>>

\* the loop condition fails: return settlements
Return ==
    /\ pc = "loop"
    /\ ~LoopCond(LoopState)
    /\ pc' = "done"
    /\ UNCHANGED <<appVars, unit, balances, planner, loopVars>>

NextPlan == RoundBalances \/ StartPlan \/ StartPlanDiff \/ LoopStep \/ Return

SpecPlan == InitPlan /\ [][NextPlan]_vars

\* buildSettlementPlan is synchronous: once called, its loop runs on and it
\* returns as soon as the loop condition fails
SpecPlanFair == SpecPlan /\ WF_vars(LoopStep) /\ WF_vars(Return)

(***************************************************************************)
(* SpecCalc: one call of calculateBalances on participants and expenses    *)
(* drawn from bounded sets.  An id outside the participant list is an      *)
(* unknown (removed) participant.                                          *)
(***************************************************************************)
CalcIds == {1, 2}

ParticipantLists == {ps \in SeqsUpTo(CalcIds, Cardinality(CalcIds)) : IsInjective(ps)}

\* the share lists: every id in turn has no share or a share of 1..MaxCalcAmount
RECURSIVE ShareLists(_)
ShareLists(ids) ==
    IF ids = {} THEN {<<>>}
    ELSE LET id == CHOOSE x \in ids : \A y \in ids : x <= y
             rest == ShareLists(ids \ {id})
         IN  rest \cup {<<[participantId |-> id, amount |-> a]>> \o r :
                           a \in 1..MaxCalcAmount, r \in rest}

ExpenseBodies ==
    {[amount |-> a, payerId |-> p, shares |-> sh] :
        a \in 0..MaxCalcAmount, p \in CalcIds, sh \in ShareLists(CalcIds)}

\* expense ids are the positions in the list
WithIds(bodies) ==
    [i \in 1..Len(bodies) |->
        [id |-> i, amount |-> bodies[i].amount, payerId |-> bodies[i].payerId,
         shares |-> bodies[i].shares]]

InitCalc ==
    /\ IdleLoop
    /\ shareFields = <<>>
    /\ payerId = NoPayer
    /\ idCounter = 0
    /\ unit = ROUNDING_UNIT
    /\ pc = "input"
    /\ balances = <<>>
    /\ participants \in ParticipantLists
    /\ expenses \in {WithIds(b) : b \in SeqsUpTo(ExpenseBodies, MaxExpenses)}

\* calculateBalances(participants, expenses)
Calculate ==
    /\ pc = "input"
    /\ balances' = calculateBalances(participants, expenses)
    /\ pc' = "balances"
    /\ UNCHANGED <<appVars, unit, planner, loopVars>>

NextCalc == Calculate

SpecCalc == InitCalc /\ [][NextCalc]_vars

(***************************************************************************)
(* Spec: the App component.  State: participants, expenses, the expense    *)
(* form (share rows, payerId).  balances and settlements are the App's     *)
(* useMemo values, recomputed whenever participants or expenses change.    *)
(* createId hands out fresh ids: idCounter + 1.                            *)
(***************************************************************************)
\* settlement.ts 371-379: balances = calculateBalances(participants, expenses),
\* settlements = buildSettlementPlan(balances)
Memo ==
    /\ balances' = calculateBalances(participants', expenses')
    /\ settlements' = buildSettlementPlan(balances')

Init ==
    /\ IdleApp
    /\ IdleLoop
    /\ unit = ROUNDING_UNIT
    /\ pc = "app"
    /\ balances = <<>>

\* handleParticipantSubmit
AddParticipant ==
    /\ idCounter < MaxIds
    /\ LET newId == idCounter + 1
       IN  /\ idCounter' = newId
           /\ participants' = Append(participants, newId)
           /\ shareFields' = Append(shareFields, newId)
           /\ payerId' = IF payerId = NoPayer THEN newId ELSE payerId
    /\ UNCHANGED expenses
    /\ Memo
    /\ UNCHANGED <<unit, pc, planner, debtors, creditors, debtorIndex, creditorIndex>>

\* the payer <select> of the expense form: its options are the participants
SelectPayer(id) ==
    /\ id \in Range(participants)
    /\ id # payerId
    /\ payerId' = id
    /\ UNCHANGED <<participants, expenses, shareFields, idCounter>>
    /\ Memo
    /\ UNCHANGED <<unit, pc, planner, debtors, creditors, debtorIndex, creditorIndex>>

\* expense.shares.filter(share => share.participantId !== id)
FilteredShares(expense, id) ==
    SelectSeq(expense.shares, LAMBDA share : share.participantId # id)

\* the reducer of handleRemoveParticipant's setExpenses
RECURSIVE RemoveFromExpenses(_, _)
RemoveFromExpenses(es, id) ==
    IF es = <<>> THEN <<>>
    ELSE LET expense == es[1]
             rest == RemoveFromExpenses(Tail(es), id)
         IN  IF expense.payerId = id THEN rest
             ELSE IF Len(FilteredShares(expense, id)) = 0 THEN rest
             ELSE <<[expense EXCEPT !.shares = FilteredShares(expense, id)]>> \o rest

\* handleRemoveParticipant(id)
RemoveParticipant(id) ==
    /\ id \in Range(participants)
    /\ LET updatedParticipants == SelectSeq(participants, LAMBDA p : p # id)
       IN  /\ participants' = updatedParticipants
           /\ expenses' = RemoveFromExpenses(expenses, id)
           /\ shareFields' = IF Len(updatedParticipants) = 0 THEN <<>>
                             ELSE SelectSeq(shareFields, LAMBDA f : f # id)
           /\ payerId' = IF Len(updatedParticipants) = 0 THEN NoPayer
                         ELSE IF payerId = id THEN updatedParticipants[1]
                         ELSE payerId
    /\ UNCHANGED idCounter
    /\ Memo
    /\ UNCHANGED <<unit, pc, planner, debtors, creditors, debtorIndex, creditorIndex>>

\* Math.max(0, Math.round(Number(raw)) || 0); '' is typed as 0
ParseFixed(typed) == IF MathRound(typed, 1) > 0 THEN MathRound(typed, 1) ELSE 0

\* fixedEntries of onSubmitExpense
FixedEntries(includedShares) ==
    [i \in 1..Len(includedShares) |->
        [participantId |-> includedShares[i].participantId,
         amount |-> ParseFixed(includedShares[i].fixedAmount)]]

\* the share the k-th flexible participant is given (k counts from 1)
FlexibleShare(remainder, n, k) ==
    LET baseShare == remainder \div n
        extra == remainder - baseShare * n
    IN  IF k <= extra THEN baseShare + 1 ELSE baseShare

\* the shareAmounts Map of onSubmitExpense, as a function of the entry's index
ShareAmounts(fixedEntries, amount) ==
    LET totalFixed == SumField(fixedEntries, "amount")
        flexible == {i \in DOMAIN fixedEntries : fixedEntries[i].amount = 0}
        remainder == amount - totalFixed
    IN  [i \in DOMAIN fixedEntries |->
            IF fixedEntries[i].amount > 0 THEN fixedEntries[i].amount
            ELSE FlexibleShare(remainder, Cardinality(flexible),
                               Cardinality({j \in flexible : j <= i}))]

\* the validation of onSubmitExpense: TRUE when a setError / return is reached
SubmitRejected(values) ==
    LET amount == MathRound(values.amount, 1)
        includedShares == SelectSeq(values.shares, LAMBDA share : share.included)
        fixedEntries == FixedEntries(includedShares)
        totalFixed == SumField(fixedEntries, "amount")
        flexible == {i \in DOMAIN fixedEntries : fixedEntries[i].amount = 0}
        remainder == amount - totalFixed
    IN  \/ amount <= 0
        \/ values.payerId = NoPayer
        \/ Len(includedShares) = 0
        \/ totalFixed > amount
        \/ flexible = {} /\ remainder # 0
        \/ flexible # {} /\ remainder < 0
        \/ SumField([i \in DOMAIN fixedEntries |->
                        [amount |-> ShareAmounts(fixedEntries, amount)[i]]],
                    "amount") # amount

\* newExpense of onSubmitExpense
NewExpense(values, newId) ==
    LET amount == MathRound(values.amount, 1)
        includedShares == SelectSeq(values.shares, LAMBDA share : share.included)
        shareAmounts == ShareAmounts(FixedEntries(includedShares), amount)
    IN  [id |-> newId, amount |-> amount, payerId |-> values.payerId,
         shares |-> [i \in 1..Len(includedShares) |->
                       [participantId |-> includedShares[i].participantId,
                        amount |-> shareAmounts[i]]]]

\* the form values a user can submit: any amount, the form's payer, and for
\* every share row a checkbox and a fixed amount (cleared when unchecked)
FormValues ==
    {[amount |-> a, payerId |-> payerId,
      shares |-> [i \in 1..Len(shareFields) |->
                    [participantId |-> shareFields[i], included |-> inc[i],
                     fixedAmount |-> IF inc[i] THEN fx[i] ELSE 0]]] :
        a \in 0..MaxAmount,
        inc \in [1..Len(shareFields) -> BOOLEAN],
        fx \in [1..Len(shareFields) -> -1..MaxAmount]}

\* onSubmitExpense(values)
SubmitExpense(values) ==
    /\ Len(expenses) < MaxExpenses
    /\ idCounter < MaxIds
    /\ IF SubmitRejected(values)
       THEN UNCHANGED <<expenses, idCounter>>
       ELSE /\ idCounter' = idCounter + 1
            /\ expenses' = <<NewExpense(values, idCounter + 1)>> \o expenses
    /\ UNCHANGED <<participants, shareFields, payerId>>
    /\ Memo
    /\ UNCHANGED <<unit, pc, planner, debtors, creditors, debtorIndex, creditorIndex>>

\* handleRemoveExpense(id)
RemoveExpense(id) ==
    /\ \E i \in DOMAIN expenses : expenses[i].id = id
    /\ expenses' = SelectSeq(expenses, LAMBDA expense : expense.id # id)
    /\ UNCHANGED <<participants, shareFields, payerId, idCounter>>
    /\ Memo
    /\ UNCHANGED <<unit, pc, planner, debtors, creditors, debtorIndex, creditorIndex>>

Next ==
    \/ AddParticipant
    \/ \E id \in 1..MaxIds : SelectPayer(id)
    \/ \E id \in 1..MaxIds : RemoveParticipant(id)
    \/ \E values \in FormValues : SubmitExpense(values)
    \/ \E id \in 1..MaxIds : RemoveExpense(id)

Spec == Init /\ [][Next]_vars

(***************************************************************************)
(* Properties.                                                             *)
(***************************************************************************)
\* the balance list carries roundedDiff (it went through roundBalancesToUnit)
IsRounded == \A i \in DOMAIN balances : HasField(balances[i], "roundedDiff")

\* the running planner reads a field that every balance carries
ConsultedInts ==
    /\ planner \in {"roundedDiff", "diff"}
    /\ \A i \in DOMAIN balances : HasField(balances[i], planner)

ZeroSumInput == ConsultedInts /\ SumField(balances, planner) = 0

RECURSIVE FromTotal(_, _)
FromTotal(sett, id) ==
    IF sett = <<>> THEN 0
    ELSE (IF sett[1].from = id THEN sett[1].amount ELSE 0) + FromTotal(Tail(sett), id)

RECURSIVE ToTotal(_, _)
ToTotal(sett, id) ==
    IF sett = <<>> THEN 0
    ELSE (IF sett[1].to = id THEN sett[1].amount ELSE 0) + ToTotal(Tail(sett), id)

Positives == {i \in DOMAIN balances : balances[i][planner] > 0}
Negatives == {i \in DOMAIN balances : balances[i][planner] < 0}

\* C1: for a non-empty balance list with integer diffs and a positive integer
\* unit, the roundedDiff values returned by roundBalancesToUnit sum to exactly 0.
C1_RoundedDiffsSumToZero ==
    (Len(balances) > 0 /\ IsRounded) => SumField(balances, "roundedDiff") = 0

\* a rounded list in which the drift correction changed an entry
C1_Witness ==
    /\ pc = "rounded"
    /\ \E i \in DOMAIN balances :
         balances[i].roundedDiff # roundToUnit(balances[i].diff, unit)

\* C2: when the consulted differences sum to 0, the returned plan zeroes every
\* balance: a debtor is the `from` of entries totalling its absolute difference
\* and the `to` of none, a creditor is the `to` of entries totalling its
\* difference and the `from` of none, a participant with difference 0 is in no
\* entry, and both lists are exhausted.
C2_ZeroSumPlanSettlesEveryone ==
    (pc = "done" /\ ZeroSumInput) =>
        /\ \A i \in DOMAIN balances :
             LET d == balances[i][planner]
                 id == balances[i].participant
             IN  /\ FromTotal(settlements, id) = (IF d < 0 THEN -d ELSE 0)
                 /\ ToTotal(settlements, id) = (IF d > 0 THEN d ELSE 0)
                 /\ d <= 0 => \A k \in DOMAIN settlements : settlements[k].to # id
                 /\ d >= 0 => \A k \in DOMAIN settlements : settlements[k].from # id
        /\ debtorIndex = Len(debtors)
        /\ creditorIndex = Len(creditors)

\* a finished zero-sum plan with several debtors and several entries
C2_Witness ==
    /\ pc = "done"
    /\ ZeroSumInput
    /\ Len(debtors) >= 2
    /\ Len(settlements) >= 2

\* C3 as stated: on zero-sum balances, subtracting each entry's amount from the
\* `from` participant's diff and adding it to the `to` participant's diff
\* leaves every diff 0.
C3_SubtractFromPayerAddToPayee ==
    (pc = "done" /\ ZeroSumInput) =>
        \A i \in DOMAIN balances :
            balances[i][planner]
              - FromTotal(settlements, balances[i].participant)
              + ToTotal(settlements, balances[i].participant) = 0

\* C3 amended: on zero-sum balances, adding each entry's amount to the `from`
\* participant's diff (the debtor has paid) and subtracting it from the `to`
\* participant's diff (the creditor was paid) leaves every diff 0.
C3_AddToPayerSubtractFromPayee ==
    (pc = "done" /\ ZeroSumInput) =>
        \A i \in DOMAIN balances :
            balances[i][planner]
              + FromTotal(settlements, balances[i].participant)
              - ToTotal(settlements, balances[i].participant) = 0

\* a finished zero-sum plan with several creditors
C3_Witness ==
    /\ pc = "done"
    /\ ZeroSumInput
    /\ Len(creditors) >= 2
    /\ Len(settlements) >= 1

\* C4 as stated: for every balance list the number of emitted entries is at most
\* (positive differences + negative differences - 1).
C4_CountAtMostNonzeroMinusOne ==
    (pc = "done" /\ ConsultedInts) =>
        Len(settlements) <= Cardinality(Positives) + Cardinality(Negatives) - 1

\* C4 amended: when at least one difference is non-zero the number of emitted
\* entries is at most (positive differences + negative differences - 1); when
\* every difference is 0 (or the list is empty) no entry is emitted.
C4_CountBound ==
    (pc \in {"loop", "done"} /\ ConsultedInts) =>
        IF Positives \cup Negatives = {}
        THEN Len(settlements) = 0
        ELSE Len(settlements) <= Cardinality(Positives) + Cardinality(Negatives) - 1

\* a finished plan that reaches the bound with at least two entries
C4_Witness ==
    /\ pc = "done"
    /\ ConsultedInts
    /\ Len(settlements) >= 2
    /\ Len(settlements) = Cardinality(Positives) + Cardinality(Negatives) - 1

\* C5: every emitted entry has amount > 0 and from # to (participant ids are
\* unique in every balance list of the model).
C5_EntriesPositiveNoSelfPayment ==
    \A k \in DOMAIN settlements :
        settlements[k].amount > 0 /\ settlements[k].from # settlements[k].to

\* a finished plan of a list that is not zero-sum, with an entry
C5_Witness ==
    /\ pc = "done"
    /\ ConsultedInts
    /\ SumField(balances, planner) # 0
    /\ Len(settlements) >= 1

RECURSIVE SumPairs(_)
SumPairs(S) ==
    IF S = {} THEN 0
    ELSE LET x == CHOOSE y \in S : TRUE IN x[2] + SumPairs(S \ {x})

\* reference: the amounts of the counted expenses paid by p
RefPaid(p) ==
    SumPairs({<<i, expenses[i].amount>> :
                 i \in {j \in DOMAIN expenses :
                          expenses[j].amount > 0 /\ expenses[j].payerId = p}})

\* the positions <<expense, share>> of all shares
ShareSlots ==
    UNION {{<<i, j>> : j \in DOMAIN expenses[i].shares} : i \in DOMAIN expenses}

\* reference: the share amounts addressed to p inside counted expenses
RefShouldPay(p) ==
    SumPairs({<<x, expenses[x[1]].shares[x[2]].amount>> :
                 x \in {y \in ShareSlots :
                          /\ expenses[y[1]].amount > 0
                          /\ expenses[y[1]].shares[y[2]].participantId = p}})

\* every expense has its payer among the participants and shares summing to
\* its amount
WellFormedExpenses ==
    \A i \in DOMAIN expenses :
        /\ expenses[i].payerId \in Range(participants)
        /\ SumField(expenses[i].shares, "amount") = expenses[i].amount

\* every share is addressed to a participant
SharesAddressKnown ==
    \A i \in DOMAIN expenses : \A j \in DOMAIN expenses[i].shares :
        expenses[i].shares[j].participantId \in Range(participants)

\* C6 as stated: when every expense has its payer among the participants and
\* share amounts that sum to its amount, the diffs of calculateBalances sum to 0.
C6_DiffsSumToZero ==
    (pc = "balances" /\ WellFormedExpenses) => SumField(balances, "diff") = 0

\* C6 amended: when every expense has its payer among the participants, share
\* amounts that sum to its amount, and every share addressed to a participant,
\* the diffs of calculateBalances sum to 0.
C6_DiffsSumToZeroKnownShares ==
    (pc = "balances" /\ WellFormedExpenses /\ SharesAddressKnown) =>
        SumField(balances, "diff") = 0

\* balances of two well-formed expenses, not all settled
C6_Witness ==
    /\ pc = "balances"
    /\ WellFormedExpenses
    /\ SharesAddressKnown
    /\ Len(expenses) >= 2
    /\ \E i \in DOMAIN balances : balances[i].diff # 0

\* C7: calculateBalances returns one balance per participant, in the
\* participants' order, with paid = the amounts of the expenses with amount > 0
\* paid by the participant, shouldPay = the share amounts addressed to it inside
\* expenses with amount > 0, diff = paid - shouldPay; skipped expenses and
\* unknown ids contribute nothing.
C7_BalancesMatchReference ==
    pc = "balances" =>
        /\ Len(balances) = Len(participants)
        /\ \A i \in DOMAIN balances :
             /\ balances[i].participant = participants[i]
             /\ balances[i].paid = RefPaid(participants[i])
             /\ balances[i].shouldPay = RefShouldPay(participants[i])
             /\ balances[i].diff = balances[i].paid - balances[i].shouldPay

\* balances of an input with a skipped expense that carries a share addressed
\* to a participant, an unknown payer and a participant that owes something
C7_Witness ==
    /\ pc = "balances"
    /\ \E i \in DOMAIN expenses :
         /\ expenses[i].amount <= 0
         /\ \E j \in DOMAIN expenses[i].shares :
              expenses[i].shares[j].participantId \in Range(participants)
    /\ \E i \in DOMAIN expenses :
         expenses[i].amount > 0 /\ expenses[i].payerId \notin Range(participants)
    /\ \E i \in DOMAIN balances : balances[i].shouldPay > 0

\* the RoundedBalance list in which every roundedDiff equals diff
AsRounded(bs) == [i \in 1..Len(bs) |-> WithRoundedDiff(bs[i], bs[i].diff)]

\* C9 as stated: for the raw list of calculateBalances, as the App passes it,
\* buildSettlementPlan returns the entries it returns for the RoundedBalance
\* list whose roundedDiff equals diff.
C9_RawPlanEqualsRoundedPlan ==
    pc = "app" => settlements = buildSettlementPlan(AsRounded(balances))

\* C10 as stated: every expense held in the App's expenses state has share
\* amounts that sum to the expense's amount.
C10_SharesSumToAmount ==
    pc = "app" =>
        \A i \in DOMAIN expenses :
            SumField(expenses[i].shares, "amount") = expenses[i].amount

\* the per-balance value round(diff / unit) * unit of balance i
PerBalance(i) == roundToUnit(balances[i].diff, unit)

\* T, the sum of the per-balance values
RECURSIVE DriftFrom(_)
DriftFrom(i) == IF i > Len(balances) THEN 0 ELSE PerBalance(i) + DriftFrom(i + 1)

\* the first balance in input order that holds the maximum per-balance value
IsFirstMax(i) ==
    /\ \A j \in DOMAIN balances : PerBalance(j) <= PerBalance(i)
    /\ \A j \in 1..(i - 1) : PerBalance(j) < PerBalance(i)

\* the first balance in input order that holds the minimum per-balance value
IsFirstMin(i) ==
    /\ \A j \in DOMAIN balances : PerBalance(j) >= PerBalance(i)
    /\ \A j \in 1..(i - 1) : PerBalance(j) > PerBalance(i)

\* C11: with T the sum of the per-balance values round(diff/unit)*unit, if T > 0
\* the first balance holding the maximum gets roundedDiff = its value - T, if
\* T < 0 the first balance holding the minimum gets its value - T, every other
\* balance keeps its per-balance value, and if T = 0 nothing is adjusted; for
\* diffs +50, -30, -20 and unit 100 a single entry is corrected and the sum is 0.
C11_DriftCorrectedOnOneEntry ==
    (pc = "rounded" /\ IsRounded) =>
        LET T == DriftFrom(1)
        IN  /\ \A i \in DOMAIN balances :
                 balances[i].roundedDiff =
                     IF (T > 0 /\ IsFirstMax(i)) \/ (T < 0 /\ IsFirstMin(i))
                     THEN PerBalance(i) - T
                     ELSE PerBalance(i)
            /\ T # 0 =>
                 Cardinality({i \in DOMAIN balances :
                                 balances[i].roundedDiff # PerBalance(i)}) = 1
            /\ (/\ unit = ROUNDING_UNIT
                /\ Len(balances) = 3
                /\ balances[1].diff = 50
                /\ balances[2].diff = -30
                /\ balances[3].diff = -20) =>
                   /\ balances[1].roundedDiff = 0
                   /\ balances[2].roundedDiff = 0
                   /\ balances[3].roundedDiff = 0

\* a rounded list with positive drift in which two balances hold the maximum
C11_Witness ==
    /\ pc = "rounded"
    /\ IsRounded
    /\ DriftFrom(1) > 0
    /\ \E i, j \in DOMAIN balances :
         i < j /\ IsFirstMax(i) /\ PerBalance(j) = PerBalance(i)

\* C12: for every balance list, zero-sum or not, the matching loop terminates:
\* an iteration runs only while neither list is exhausted, it moves the debtor
\* cursor, the creditor cursor or both forward by one and never back, the
\* cursors stay within the lists (so there are at most debtors + creditors
\* iterations), the function returns with one of the lists exhausted, and a
\* started loop always reaches the return.
C12_LoopTerminates ==
    /\ [][LoopStep =>
            /\ debtorIndex < Len(debtors) /\ creditorIndex < Len(creditors)
            /\ debtorIndex' \in {debtorIndex, debtorIndex + 1}
            /\ creditorIndex' \in {creditorIndex, creditorIndex + 1}
            /\ debtorIndex' + creditorIndex' > debtorIndex + creditorIndex]_vars
    /\ [](pc \in {"loop", "done"} =>
            /\ debtorIndex \in 0..Len(debtors)
            /\ creditorIndex \in 0..Len(creditors))
    /\ [](pc = "done" =>
            debtorIndex = Len(debtors) \/ creditorIndex = Len(creditors))
    /\ [][pc = "loop" /\ pc' = "done" =>
            debtorIndex = Len(debtors) \/ creditorIndex = Len(creditors)]_vars
    /\ (pc = "loop" ~> pc = "done")

\* the plan of a list that is not zero-sum returned after several iterations,
\* with the debtors exhausted and a creditor left unmatched
C12_Witness ==
    /\ pc = "done"
    /\ ConsultedInts
    /\ SumField(balances, planner) # 0
    /\ Len(settlements) >= 2
    /\ debtorIndex = Len(debtors)
    /\ creditorIndex < Len(creditors)

\* the position in the input balance list of the participant with this id
PosOf(id) == CHOOSE i \in DOMAIN balances : balances[i].participant = id

\* C13: along the emitted sequence the debtor's position and the creditor's
\* position in the input balance list never decrease and at least one of them
\* strictly increases between consecutive entries, so no (from, to) pair is
\* emitted twice; for balances A +2000, B -1000, C -1000 (ids 1, 2, 3) the plan
\* is exactly [B -> A 1000, C -> A 1000].
C13_MatchesInInputOrder ==
    /\ \A k \in 1..(Len(settlements) - 1) :
         /\ PosOf(settlements[k].from) <= PosOf(settlements[k + 1].from)
         /\ PosOf(settlements[k].to) <= PosOf(settlements[k + 1].to)
         /\ \/ PosOf(settlements[k].from) < PosOf(settlements[k + 1].from)
            \/ PosOf(settlements[k].to) < PosOf(settlements[k + 1].to)
    /\ \A k, l \in DOMAIN settlements :
         (settlements[k].from = settlements[l].from
            /\ settlements[k].to = settlements[l].to) => k = l
    /\ (/\ pc = "done"
        /\ ConsultedInts
        /\ Len(balances) = 3
        /\ balances[1][planner] = 2000
        /\ balances[2][planner] = -1000
        /\ balances[3][planner] = -1000) =>
           settlements = <<[from |-> 2, to |-> 1, amount |-> 1000],
                           [from |-> 3, to |-> 1, amount |-> 1000]>>

\* the finished plan of the A +2000, B -1000, C -1000 scenario
C13_Witness ==
    /\ pc = "done"
    /\ ConsultedInts
    /\ Len(balances) = 3
    /\ balances[1][planner] = 2000
    /\ balances[2][planner] = -1000
    /\ balances[3][planner] = -1000
    /\ Len(settlements) = 2

\* C14: every roundedDiff returned by roundBalancesToUnit, the drift-corrected
\* one included, is an integer multiple of unit, and every amount of a plan
\* built from those rounded balances is a positive multiple of unit.
C14_MultiplesOfUnit ==
    IsRounded =>
        /\ \A i \in DOMAIN balances : balances[i].roundedDiff % unit = 0
        /\ planner = "roundedDiff" =>
              \A k \in DOMAIN settlements :
                  settlements[k].amount > 0 /\ settlements[k].amount % unit = 0

\* a finished plan with an entry, built with a unit above 1 from a rounded list
\* in which the drift correction changed an entry
C14_Witness ==
    /\ pc = "done"
    /\ planner = "roundedDiff"
    /\ IsRounded
    /\ Len(balances) > 0
    /\ unit > 1
    /\ Len(settlements) >= 1
    /\ \E i \in DOMAIN balances :
         balances[i].roundedDiff # roundToUnit(balances[i].diff, unit)

====
